---- MODULE Spec2Model ----
(***************************************************************************)
(* Model of the GameGraphicsProgramming demo: the level loader             *)
(* MyDemoGame::TestLoadLevel with the Init / UpdateScene code around it,   *)
(* the Component back-reference (Component.cpp) and the Transform          *)
(* dirty-flag cache (Transform.h).                                         *)
(*                                                                         *)
(* Text is a tuple of one-character strings, so strstr, sscanf, substr and *)
(* getline are computed character by character.  A float is an integer.    *)
(* A pointer is the number of the object it points to, 0 for nullptr.      *)
(***************************************************************************)
EXTENDS Integers, Sequences, FiniteSets, TLC

VARIABLES
    \* ---- MyDemoGame (MyDemoGame.cpp)
    pc,             \* where the program is: start, geometry, open, load, run, initFailed, thrown
    ents,           \* std::vector<Entity*> ents
    meshes,         \* std::vector<Mesh*> meshes
    transforms,     \* transforms[e]: the Transform of entity e (also the transforms of TransformSpec)
    \* ---- the level file and the ifstream s
    fileOpens,      \* whether the ifstream constructor opens the file
    nLines,         \* number of lines of the file
    lastHasNL,      \* whether the last line ends with a newline
    linesLeft,      \* lines the stream has not finished reading
    curLine,        \* the whole file line the last getline read from
    eofbit, failbit,
    \* ---- locals of TestLoadLevel
    state, chars, currentEntity,
    \* ---- history
    atCall,         \* ents, meshes, transforms as TestLoadLevel was entered
    iters,          \* iterations of the read loop
    seenArena,      \* a line containing "arena" has been processed
    frames,         \* UpdateScene calls
    \* ---- Component (Component.cpp)
    components,     \* components[c]: the fields of component c
    calls,          \* calls[c]: SetEntiy calls made on component c
    nonNullCalls,   \* calls[c] with a non-null argument
    \* ---- Transform harness history
    lastOp,         \* the last Transform operation: [op, t]
    walks,          \* parent-chain walks done by the last Transform operation
    ret,            \* matrix returned by the last GetWorldMatrix
    ops             \* Transform operations done

gameVars == <<pc, ents, meshes, fileOpens, nLines, lastHasNL, linesLeft, curLine,
              eofbit, failbit, state, chars, currentEntity, atCall, iters,
              seenArena, frames>>
compVars == <<components, calls, nonNullCalls>>
transVars == <<lastOp, walks, ret, ops>>
vars == <<gameVars, transforms, compVars, transVars>>

\* ------------------------------------------------------------------ bounds
MaxLines == 4
MaxFrames == 1
MaxComponents == 2
MaxCalls == 3
MaxEntities == 2
NumTransforms == 2
MaxOps == 4

\* ------------------------------------------------------- program constants
BufSize == 400
ArenaState == 4
NameStart == 6
RotRate == 3

Null == 0

\* ------------------------------------------------------------------- text
Pad(n, c) == [i \in 1..n |-> c]

kwArena == <<"a","r","e","n","a">>
kwPos == <<"p","o","s">>
kwRot == <<"r","o","t">>
kwScl == <<"s","c","l">>
kwModel == <<"m","o","d","e","l">>

\* std::strstr(s, pat) != nullptr
Contains(s, pat) ==
    \E i \in 1..(Len(s) - Len(pat) + 1) : SubSeq(s, i, i + Len(pat) - 1) = pat

IsSpace(c) == c \in {" ", "\t"}
IsDigit(c) == c \in {"0","1","2","3","4","5","6","7","8","9"}
DigitVal(c) ==
    CASE c = "0" -> 0 [] c = "1" -> 1 [] c = "2" -> 2 [] c = "3" -> 3 [] c = "4" -> 4
      [] c = "5" -> 5 [] c = "6" -> 6 [] c = "7" -> 7 [] c = "8" -> 8 [] c = "9" -> 9

RECURSIVE SkipSpace(_, _)
SkipSpace(s, i) ==
    IF i <= Len(s) /\ IsSpace(s[i]) THEN SkipSpace(s, i + 1) ELSE i

RECURSIVE ScanDigits(_, _, _)
\* reads digits from s[i]: <<value, next index>>
ScanDigits(s, i, acc) ==
    IF i <= Len(s) /\ IsDigit(s[i])
    THEN ScanDigits(s, i + 1, acc * 10 + DigitVal(s[i]))
    ELSE <<acc, i>>

\* one %f conversion at s[i]: skips white space, then an optional sign and digits
ScanFloat(s, i) ==
    LET j == SkipSpace(s, i)
        neg == j <= Len(s) /\ s[j] = "-"
        k == IF j <= Len(s) /\ s[j] \in {"-", "+"} THEN j + 1 ELSE j
        d == ScanDigits(s, k, 0)
    IN  IF d[2] = k
        THEN [ok |-> FALSE, val |-> 0, next |-> i]
        ELSE [ok |-> TRUE, val |-> IF neg THEN 0 - d[1] ELSE d[1], next |-> d[2]]

\* sscanf_s(chars, "<kw> %f %f %f", ...): the values assigned, in order (0 to 3 of them)
Sscanf3(s, kw) ==
    IF Len(s) < Len(kw) \/ SubSeq(s, 1, Len(kw)) # kw
    THEN << >>
    ELSE LET a == ScanFloat(s, Len(kw) + 1)
         IN  IF ~a.ok THEN << >>
             ELSE LET b == ScanFloat(s, a.next)
                  IN  IF ~b.ok THEN <<a.val>>
                      ELSE LET c == ScanFloat(s, b.next)
                           IN  IF ~c.ok THEN <<a.val, b.val>>
                               ELSE <<a.val, b.val, c.val>>

\* values an XMFLOAT3 member can hold when sscanf_s did not assign it
Indeterminate == {0, 9}

\* the XMFLOAT3 locals the pos/rot/scl branches can pass on: assigned members
\* as parsed, the others indeterminate
ScannedFloat3(s, kw) ==
    LET got == Sscanf3(s, kw)
    IN  { <<x, y, z>> : x \in (IF Len(got) >= 1 THEN {got[1]} ELSE Indeterminate),
                        y \in (IF Len(got) >= 2 THEN {got[2]} ELSE Indeterminate),
                        z \in (IF Len(got) >= 3 THEN {got[3]} ELSE Indeterminate) }

\* ------------------------------------------------------ istream::getline
\* s.getline(chars, BufSize) when the stream holds `window` up to and including
\* the next newline (or up to end of file): characters stored, whether the
\* whole window was consumed, and the state bits set
GetLine(window) ==
    LET hasNL == Len(window) > 0 /\ window[Len(window)] = "\n"
        avail == IF hasNL THEN Len(window) - 1 ELSE Len(window)
    IN  IF avail >= BufSize
        THEN [stored |-> SubSeq(window, 1, BufSize - 1), consumed |-> FALSE,
              eof |-> FALSE, fail |-> TRUE]
        ELSE [stored |-> SubSeq(window, 1, avail), consumed |-> TRUE,
              eof |-> ~hasNL, fail |-> (~hasNL /\ avail = 0)]

\* s.good()
Good == ~eofbit /\ ~failbit


\* -------------------------------------------------------------- Transform
\* Transform::Transform()
NewTransform ==
    [parrent |-> Null, isDirty |-> TRUE,
     position |-> <<0, 0, 0>>, rotation |-> <<0, 0, 0>>, scale |-> <<1, 1, 1>>,
     worldMatrix |-> << >>]

GetPosition(ts, t) == ts[t].position
GetRotation(ts, t) == ts[t].rotation
GetScale(ts, t) == ts[t].scale
GetParrent(ts, t) == ts[t].parrent

SetPosition(ts, t, newPos) == [ts EXCEPT ![t].position = newPos, ![t].isDirty = TRUE]
SetRotation(ts, t, newRot) == [ts EXCEPT ![t].rotation = newRot, ![t].isDirty = TRUE]
SetScale(ts, t, newScale) == [ts EXCEPT ![t].scale = newScale, ![t].isDirty = TRUE]
SetParrent(ts, t, newParrent) == [ts EXCEPT ![t].parrent = newParrent, ![t].isDirty = TRUE]

\* the matrix of t alone, kept symbolic: the triple it is built from
LocalMatrix(ts, t) == <<ts[t].position, ts[t].rotation, ts[t].scale>>

RECURSIVE ChainMatrix(_, _)
\* one walk up the parent chain from t: the product of the local matrices,
\* kept symbolic as the list of its factors
ChainMatrix(ts, t) ==
    IF t = Null THEN << >> ELSE <<LocalMatrix(ts, t)>> \o ChainMatrix(ts, ts[t].parrent)

RECURSIVE Reaches(_, _, _, _)
\* whether the parent chain from `from` comes to `to` within n links
Reaches(ts, from, to, n) ==
    IF from = Null \/ n = 0 THEN FALSE
    ELSE from = to \/ Reaches(ts, ts[from].parrent, to, n - 1)

\* Transform::RecalculateWorldMatrix: the transforms after the call, the matrix
\* returned and the number of walks up the parent chain the call made
RecalculateWorldMatrix(ts, t) ==
    IF ts[t].isDirty
    THEN [ts |-> [ts EXCEPT ![t].worldMatrix = ChainMatrix(ts, t), ![t].isDirty = FALSE],
          matrix |-> ChainMatrix(ts, t), walks |-> 1]
    ELSE [ts |-> ts, matrix |-> ts[t].worldMatrix, walks |-> 0]

\* a getter that hands out the saved matrix and never recalculates
GetWorldMatrixSavedOnly(ts, t) == [ts |-> ts, matrix |-> ts[t].worldMatrix, walks |-> 0]

\* Transform::GetWorldMatrix
GetWorldMatrix(ts, t) == RecalculateWorldMatrix(ts, t)

\* ------------------------------------------------------------- MyDemoGame
AssetsModels == <<"A","s","s","e","t","s","/","M","o","d","e","l","s","/">>
DotObj == <<".","o","b","j">>
HelixPath == AssetsModels \o <<"h","e","l","i","x">> \o DotObj
SpherePath == AssetsModels \o <<"s","p","h","e","r","e">> \o DotObj

\* new Mesh(path, device) / new Mesh(vertices, ..., device)
MeshFromFile(path) == [fromFile |-> TRUE, path |-> path]
MeshFromVertices == [fromFile |-> FALSE, path |-> << >>]

\* lines a level file is made of
Pool ==
    { kwArena,
      kwModel \o <<" ","r","o","b","o","t">>,
      kwModel \o <<" ","r","o","t","o","r">>,
      kwModel,
      kwPos \o <<" ","1"," ","2"," ","3">>,
      kwPos \o <<" ","7">>,
      kwRot \o <<" ","4"," ","-","5"," ","6">>,
      kwScl \o <<" ","2"," ","2"," ","2">>,
      kwModel \o <<" ">>,
      <<"m","y">> \o kwModel \o <<" ","x">>,
      kwPos \o <<" ","x">>,
      kwPos \o <<" ">> \o kwArena,
      <<"h","e","l","l","o">>,
      Pad(BufSize - 1, "y"),
      Pad(BufSize, "y"),
      kwModel \o <<" ">> \o Pad(BufSize, "x") \o kwRot }

GameInit ==
    /\ pc = "start"
    /\ ents = << >>
    /\ meshes = << >>
    /\ fileOpens \in BOOLEAN
    /\ nLines \in 0..MaxLines
    /\ lastHasNL \in BOOLEAN
    /\ linesLeft = nLines
    /\ curLine = << >>
    /\ eofbit = FALSE
    /\ failbit = FALSE
    /\ state = 0
    /\ chars = << >>
    /\ currentEntity = Null
    /\ atCall = [ents |-> << >>, meshes |-> << >>, transforms |-> << >>]
    /\ iters = 0
    /\ seenArena = FALSE
    /\ frames = 0

\* new Entity(); ents.push_back(e); meshes.push_back(mesh): <<ents, meshes, transforms>> after
PushEntity(es, ms, ts, mesh) ==
    <<Append(es, Len(ts) + 1), Append(ms, mesh), Append(ts, NewTransform)>>

\* MyDemoGame::Init, lines 118-119: the base class's Init fails or succeeds
DirectXGameCoreInit ==
    /\ pc = "start"
    /\ \E ok \in BOOLEAN : pc' = IF ok THEN "geometry" ELSE "initFailed"
    /\ UNCHANGED <<ents, meshes, transforms, fileOpens, nLines, lastHasNL, linesLeft,
                   curLine, eofbit, failbit, state, chars, currentEntity, atCall,
                   iters, seenArena, frames, compVars, transVars>>

\* a CreateGeometry that forgets the third entity
CreateGeometryTwo(es, ms, ts) ==
    LET a == PushEntity(es, ms, ts, MeshFromFile(HelixPath))
    IN  PushEntity(a[1], a[2], a[3], MeshFromVertices)

\* MyDemoGame::CreateGeometry: <<ents, meshes, transforms>> after
CreateGeometryResult(es, ms, ts) ==
    LET a == PushEntity(es, ms, ts, MeshFromFile(HelixPath))
        b == PushEntity(a[1], a[2], a[3], MeshFromVertices)
    IN  PushEntity(b[1], b[2], b[3], MeshFromFile(SpherePath))

CreateGeometry ==
    /\ pc = "geometry"
    /\ LET r == CreateGeometryResult(ents, meshes, transforms)
       IN  /\ ents' = r[1]
           /\ meshes' = r[2]
           /\ transforms' = r[3]
    /\ pc' = "open"
    /\ UNCHANGED <<fileOpens, nLines, lastHasNL, linesLeft, curLine, eofbit, failbit,
                   state, chars, currentEntity, atCall, iters, seenArena, frames,
                   compVars, transVars>>

\* a loader that empties the lists before it opens the file
TestLoadLevelOpenClears ==
    /\ pc = "open"
    /\ atCall' = [ents |-> ents, meshes |-> meshes, transforms |-> transforms]
    /\ ents' = << >>
    /\ meshes' = << >>
    /\ failbit' = ~fileOpens
    /\ pc' = IF fileOpens THEN "load" ELSE "run"
    /\ state' = 0
    /\ currentEntity' = Null
    /\ UNCHANGED <<transforms, fileOpens, nLines, lastHasNL, linesLeft,
                   curLine, eofbit, chars, iters, seenArena, frames,
                   compVars, transVars>>

\* TestLoadLevel, lines 168-180: open the file, return if that failed
TestLoadLevelOpen ==
    /\ pc = "open"
    /\ atCall' = [ents |-> ents, meshes |-> meshes, transforms |-> transforms]
    /\ failbit' = ~fileOpens
    /\ pc' = IF fileOpens THEN "load" ELSE "run"
    /\ state' = 0
    /\ currentEntity' = Null
    /\ UNCHANGED <<ents, meshes, transforms, fileOpens, nLines, lastHasNL, linesLeft,
                   curLine, eofbit, chars, iters, seenArena, frames,
                   compVars, transVars>>


\* a dispatch that tests for "model" before the other keywords
DirectiveModelFirst(line) ==
    IF Contains(line, kwModel) THEN "stateful"
    ELSE IF Contains(line, kwArena) THEN "arena"
    ELSE IF Contains(line, kwPos) THEN "pos"
    ELSE IF Contains(line, kwRot) THEN "rot"
    ELSE IF Contains(line, kwScl) THEN "scl"
    ELSE "stateful"

\* TestLoadLevel, lines 186-216: the branch of the if / else-if chain a line
\* takes; "stateful" when statelessRead stays false
Directive(line) ==
    IF Contains(line, kwArena) THEN "arena"
    ELSE IF Contains(line, kwPos) THEN "pos"
    ELSE IF Contains(line, kwRot) THEN "rot"
    ELSE IF Contains(line, kwScl) THEN "scl"
    ELSE "stateful"

\* a pos branch that writes the rotation
ApplyFloat3Swapped(ts, cur, d, v) ==
    IF cur = Null THEN ts
    ELSE IF d = "pos" THEN SetRotation(ts, cur, v)
    ELSE IF d = "rot" THEN SetRotation(ts, cur, v)
    ELSE SetScale(ts, cur, v)

\* TestLoadLevel, lines 195-197, 203-205, 211-213: the setter call of a
\* pos / rot / scl branch, guarded by currentEntity != nullptr
ApplyFloat3(ts, cur, d, v) ==
    IF cur = Null THEN ts
    ELSE IF d = "pos" THEN SetPosition(ts, cur, v)
    ELSE IF d = "rot" THEN SetRotation(ts, cur, v)
    ELSE SetScale(ts, cur, v)

\* a switch that creates an entity for every line reaching case 4
CreatesEntityAnyLine(line, st) == st = ArenaState

\* TestLoadLevel, lines 217-220: whether a line that reached the switch
\* enters the body of the model branch
CreatesEntity(line, st) == st = ArenaState /\ Contains(line, kwModel)

\* std::string::substr(pos, n) with n reaching the end: the substring;
\* it throws std::out_of_range when pos > size()
SubstrThrows(line, from) == from > Len(line)
Substr(line, from) == SubSeq(line, from + 1, Len(line))

\* a model branch that leaves currentEntity alone
ModelBranchKeepsCurrent(line, cur, es, ms, ts) ==
    LET modelPath == AssetsModels \o Substr(line, NameStart) \o DotObj
        r == PushEntity(es, ms, ts, MeshFromFile(modelPath))
    IN  [currentEntity |-> cur, ents |-> r[1], meshes |-> r[2], transforms |-> r[3]]

\* TestLoadLevel, lines 222-230 (past the substr): the locals and lists after
ModelBranch(line, cur, es, ms, ts) ==
    LET modelPath == AssetsModels \o Substr(line, NameStart) \o DotObj
        r == PushEntity(es, ms, ts, MeshFromFile(modelPath))
    IN  [currentEntity |-> Len(ts) + 1, ents |-> r[1], meshes |-> r[2], transforms |-> r[3]]

\* TestLoadLevel, lines 182-237: one iteration of the read loop
TestLoadLevelLine ==
    /\ pc = "load"
    /\ Good
    /\ \E ln \in (IF linesLeft = 0 THEN {<< >>} ELSE Pool) :
         LET terminated == linesLeft > 1 \/ lastHasNL
             window == IF linesLeft = 0 THEN << >>
                       ELSE ln \o (IF terminated THEN <<"\n">> ELSE << >>)
             g == GetLine(window)
             line == g.stored
             d == Directive(line)
         IN  /\ curLine' = ln
             /\ linesLeft' = IF linesLeft > 0 /\ g.consumed THEN linesLeft - 1 ELSE linesLeft
             /\ eofbit' = g.eof
             /\ failbit' = g.fail
             /\ chars' = line
             /\ iters' = iters + 1
             /\ seenArena' = (seenArena \/ Contains(line, kwArena))
             /\ IF d = "arena"
                THEN /\ state' = ArenaState
                     /\ UNCHANGED <<pc, currentEntity, ents, meshes, transforms>>
                ELSE IF d \in {"pos", "rot", "scl"}
                THEN /\ \E v \in ScannedFloat3(line, CASE d = "pos" -> kwPos
                                                       [] d = "rot" -> kwRot
                                                       [] d = "scl" -> kwScl) :
                          transforms' = ApplyFloat3(transforms, currentEntity, d, v)
                     /\ UNCHANGED <<pc, state, currentEntity, ents, meshes>>
                ELSE IF CreatesEntity(line, state)
                THEN IF SubstrThrows(line, NameStart)
                     THEN /\ pc' = "thrown"
                          /\ UNCHANGED <<state, currentEntity, ents, meshes, transforms>>
                     ELSE LET r == ModelBranch(line, currentEntity, ents, meshes, transforms)
                          IN  /\ currentEntity' = r.currentEntity
                              /\ ents' = r.ents
                              /\ meshes' = r.meshes
                              /\ transforms' = r.transforms
                              /\ UNCHANGED <<pc, state>>
                ELSE UNCHANGED <<pc, state, currentEntity, ents, meshes, transforms>>
    /\ UNCHANGED <<fileOpens, nLines, lastHasNL, atCall, frames, compVars, transVars>>

\* TestLoadLevel, line 182 and 238: the loop ends, TestLoadLevel returns and
\* Init runs to its return true (lines 133-147)
TestLoadLevelReturn ==
    /\ pc = "load"
    /\ ~Good
    /\ pc' = "run"
    /\ UNCHANGED <<ents, meshes, transforms, fileOpens, nLines, lastHasNL, linesLeft,
                   curLine, eofbit, failbit, state, chars, currentEntity, atCall,
                   iters, seenArena, frames, compVars, transVars>>

\* MyDemoGame::UpdateScene, lines 324-334; an index past the end of ents is
\* an out-of-bounds read
UpdateScene ==
    /\ pc = "run"
    /\ frames < MaxFrames
    /\ frames' = frames + 1
    /\ IF Len(ents) < 3
       THEN /\ pc' = "outOfBounds"
            /\ UNCHANGED transforms
       ELSE /\ \E deltaTime \in {0, 1} :
                 LET rot == GetRotation(transforms, ents[1])
                     newRot == <<rot[1] + RotRate * deltaTime,
                                 rot[2] + RotRate * deltaTime,
                                 rot[3] + RotRate * deltaTime>>
                 IN  transforms' = SetParrent(SetRotation(transforms, ents[1], newRot),
                                              ents[3], ents[2])
            /\ UNCHANGED pc
    /\ UNCHANGED <<ents, meshes, fileOpens, nLines, lastHasNL, linesLeft, curLine,
                   eofbit, failbit, state, chars, currentEntity, atCall, iters,
                   seenArena, compVars, transVars>>

GameNext ==
    \/ DirectXGameCoreInit
    \/ CreateGeometry
    \/ TestLoadLevelOpen
    \/ TestLoadLevelLine
    \/ TestLoadLevelReturn
    \/ UpdateScene

\* the game before it starts, with no level file: the state of the game's
\* variables under ComponentSpec and TransformSpec, which never run the game
GameIdle ==
    /\ GameInit
    /\ fileOpens = FALSE
    /\ nLines = 0
    /\ lastHasNL = FALSE

TransformIdle ==
    /\ lastOp = [op |-> "none", t |-> Null]
    /\ walks = 0
    /\ ret = << >>
    /\ ops = 0

ComponentIdle ==
    /\ components = << >>
    /\ calls = << >>
    /\ nonNullCalls = << >>

Init ==
    /\ GameInit
    /\ transforms = << >>
    /\ ComponentIdle
    /\ TransformIdle

Next == GameNext

Spec == Init /\ [][Next]_vars

\* --------------------------------------------------------------- Component
\* entities a component can be handed: pointers 1..MaxEntities
EntityPtrs == 1..MaxEntities

\* Component::Component()
NewComponent == [parrentEntity |-> Null, index |-> "UNINDEXED"]

\* a SetEntiy without the guard
SetEntiyUnguarded(cs, c, newParrentEntity) ==
    [cs EXCEPT ![c].parrentEntity = newParrentEntity]

\* Component::SetEntiy
SetEntiy(cs, c, newParrentEntity) ==
    IF cs[c].parrentEntity # Null THEN cs
    ELSE [cs EXCEPT ![c].parrentEntity = newParrentEntity]

ConstructComponent ==
    /\ Len(components) < MaxComponents
    /\ components' = Append(components, NewComponent)
    /\ calls' = Append(calls, 0)
    /\ nonNullCalls' = Append(nonNullCalls, 0)
    /\ UNCHANGED <<gameVars, transforms, transVars>>

CallSetEntiy ==
    /\ \E c \in DOMAIN components, e \in EntityPtrs \cup {Null} :
         /\ calls[c] < MaxCalls
         /\ components' = SetEntiy(components, c, e)
         /\ calls' = [calls EXCEPT ![c] = @ + 1]
         /\ nonNullCalls' = [nonNullCalls EXCEPT ![c] = IF e # Null THEN @ + 1 ELSE @]
    /\ UNCHANGED <<gameVars, transforms, transVars>>

ComponentInit ==
    /\ GameIdle
    /\ transforms = << >>
    /\ ComponentIdle
    /\ TransformIdle

ComponentNext ==
    \/ ConstructComponent
    \/ CallSetEntiy

ComponentSpec == ComponentInit /\ [][ComponentNext]_vars

\* -------------------------------------------------------- Transform harness
\* arguments handed to the setters
Vecs == {<<1, 1, 1>>, <<2, 0, 5>>}

CallSetPosition ==
    /\ ops < MaxOps
    /\ \E t \in DOMAIN transforms, v \in Vecs :
         /\ transforms' = SetPosition(transforms, t, v)
         /\ lastOp' = [op |-> "SetPosition", t |-> t]
    /\ walks' = 0
    /\ ops' = ops + 1
    /\ UNCHANGED <<gameVars, compVars, ret>>

CallSetRotation ==
    /\ ops < MaxOps
    /\ \E t \in DOMAIN transforms, v \in Vecs :
         /\ transforms' = SetRotation(transforms, t, v)
         /\ lastOp' = [op |-> "SetRotation", t |-> t]
    /\ walks' = 0
    /\ ops' = ops + 1
    /\ UNCHANGED <<gameVars, compVars, ret>>

CallSetScale ==
    /\ ops < MaxOps
    /\ \E t \in DOMAIN transforms, v \in Vecs :
         /\ transforms' = SetScale(transforms, t, v)
         /\ lastOp' = [op |-> "SetScale", t |-> t]
    /\ walks' = 0
    /\ ops' = ops + 1
    /\ UNCHANGED <<gameVars, compVars, ret>>

\* the parent is null or a transform whose own chain does not lead back to t
\* (the class detects no cycle, and a walk round one would not end)
CallSetParrent ==
    /\ ops < MaxOps
    /\ \E t \in DOMAIN transforms, p \in DOMAIN transforms \cup {Null} :
         /\ ~Reaches(transforms, p, t, Len(transforms))
         /\ transforms' = SetParrent(transforms, t, p)
         /\ lastOp' = [op |-> "SetParrent", t |-> t]
    /\ walks' = 0
    /\ ops' = ops + 1
    /\ UNCHANGED <<gameVars, compVars, ret>>

CallGetWorldMatrix ==
    /\ ops < MaxOps
    /\ \E t \in DOMAIN transforms :
         LET r == GetWorldMatrix(transforms, t)
         IN  /\ transforms' = r.ts
             /\ ret' = r.matrix
             /\ walks' = r.walks
             /\ lastOp' = [op |-> "GetWorldMatrix", t |-> t]
    /\ ops' = ops + 1
    /\ UNCHANGED <<gameVars, compVars>>

TransformInit ==
    /\ GameIdle
    /\ transforms = [t \in 1..NumTransforms |-> NewTransform]
    /\ ComponentIdle
    /\ TransformIdle

TransformNext ==
    \/ CallSetPosition
    \/ CallSetRotation
    \/ CallSetScale
    \/ CallSetParrent
    \/ CallGetWorldMatrix

TransformSpec == TransformInit /\ [][TransformNext]_vars


\* ================================================================ claims
\* a step of the read loop: one getline and the handling of what it read
LoopStep == iters' = iters + 1

ModelRobot == kwModel \o <<" ","r","o","b","o","t">>
ModelRotor == kwModel \o <<" ","r","o","t","o","r">>
PosOneTwoThree == kwPos \o <<" ","1"," ","2"," ","3">>
Hello == <<"h","e","l","l","o">>

\* a `model <name>` directive: the keyword, a blank and a name
IsModelDirective(l) ==
    Len(l) > Len(kwModel) + 1 /\ SubSeq(l, 1, Len(kwModel) + 1) = kwModel \o <<" ">>

\* a `pos x y z` (rot, scl) directive: the keyword and three numbers
IsFloat3Directive(l, kw) == Len(Sscanf3(l, kw)) = 3

WellFormed(l) ==
    \/ l = kwArena
    \/ IsModelDirective(l)
    \/ IsFloat3Directive(l, kwPos)
    \/ IsFloat3Directive(l, kwRot)
    \/ IsFloat3Directive(l, kwScl)

ContainsEarlierKeyword(l) ==
    Contains(l, kwArena) \/ Contains(l, kwPos) \/ Contains(l, kwRot) \/ Contains(l, kwScl)

\* the step creates one entity with a fresh transform, appends it to ents and
\* its mesh to meshes, and makes it the current entity
CreatesOneEntity ==
    /\ Len(ents') = Len(ents) + 1
    /\ SubSeq(ents', 1, Len(ents)) = ents
    /\ \A i \in DOMAIN ents : ents[i] # ents'[Len(ents')]
    /\ currentEntity' = ents'[Len(ents')]
    /\ Len(meshes') = Len(meshes) + 1
    /\ SubSeq(meshes', 1, Len(meshes)) = meshes
    /\ meshes'[Len(meshes')] =
          MeshFromFile(AssetsModels \o SubSeq(chars', NameStart + 1, Len(chars')) \o DotObj)
    /\ Len(transforms') = Len(transforms) + 1
    /\ SubSeq(transforms', 1, Len(transforms)) = transforms
    /\ pc' = pc

\* the step leaves the parser state, the current entity, the lists and every
\* entity's transform as they were
LoaderUnchanged ==
    /\ state' = state
    /\ currentEntity' = currentEntity
    /\ ents' = ents
    /\ meshes' = meshes
    /\ transforms' = transforms

\* ---- C1
\* C1 as stated: a new component has no entity, and only the first SetEntiy
\* call on a component changes its back-reference, every later call leaves it
\* unchanged.
C1_OnlyFirstCallSets ==
    /\ [](\A c \in DOMAIN components : calls[c] = 0 => components[c].parrentEntity = Null)
    /\ [][\A c \in DOMAIN components :
            calls[c] >= 1 => components'[c].parrentEntity = components[c].parrentEntity]_vars

\* C1 amended: a new component has no entity; the back-reference stays null
\* until the first SetEntiy call with a non-null argument, that call sets it,
\* and every later call leaves it unchanged.
C1_SetOnceNonNull ==
    /\ [](\A c \in DOMAIN components : calls[c] = 0 => components[c].parrentEntity = Null)
    /\ [][\A c \in DOMAIN components :
            /\ nonNullCalls'[c] = 0 => components'[c].parrentEntity = Null
            /\ (nonNullCalls[c] = 0 /\ nonNullCalls'[c] = 1)
                  => (components[c].parrentEntity = Null /\ components'[c].parrentEntity # Null)
            /\ nonNullCalls[c] >= 1
                  => components'[c].parrentEntity = components[c].parrentEntity]_vars

\* a component that took a null call, then non-null calls, and holds an entity
C1_Witness ==
    \E c \in DOMAIN components :
        /\ calls[c] >= 3
        /\ nonNullCalls[c] >= 2
        /\ nonNullCalls[c] < calls[c]
        /\ components[c].parrentEntity # Null

\* ---- C2
\* C2 as stated: every line of the file that is a `model <name>` directive
\* creates one new entity, appends it to ents and its mesh to meshes, and makes
\* it the current entity.
C2_EveryModelLineCreates ==
    [][(LoopStep /\ IsModelDirective(curLine')) => CreatesOneEntity]_vars

\* C2 amended: a `model <name>` line that contains none of arena, pos, rot,
\* scl and is read after a line containing arena was processed creates one
\* new entity, appends it to ents and its mesh to meshes, and makes it the
\* current entity.
C2_ModelLineAfterArenaCreates ==
    [][(LoopStep /\ IsModelDirective(curLine') /\ ~ContainsEarlierKeyword(curLine')
          /\ seenArena) => CreatesOneEntity]_vars

\* a second model line has just replaced the current entity
C2_Witness ==
    /\ pc = "load"
    /\ curLine = ModelRobot
    /\ chars = ModelRobot
    /\ Len(ents) = Len(atCall.ents) + 2
    /\ currentEntity = ents[Len(ents)]

\* ---- C3
\* C3 as stated: a line that is not a well-formed pos / rot / scl / model /
\* arena directive leaves the parser state, the current entity, ents, meshes
\* and every entity's position, rotation and scale unchanged.
C3_MalformedLineIgnored ==
    [][(LoopStep /\ ~WellFormed(curLine')) => LoaderUnchanged]_vars

\* C3 amended: a line that contains none of the substrings arena, pos, rot,
\* scl, model leaves the parser state, the current entity, ents, meshes and
\* every entity's transform unchanged, and the loader carries on.
C3_UnrecognizedLineIgnored ==
    [][(LoopStep /\ ~ContainsEarlierKeyword(curLine') /\ ~Contains(curLine', kwModel))
          => (LoaderUnchanged /\ pc' = pc)]_vars

\* an unrecognized line was read in the arena state with a current entity
C3_Witness ==
    /\ pc = "load"
    /\ curLine = Hello
    /\ chars = Hello
    /\ state = ArenaState
    /\ currentEntity # Null

\* ---- C4
\* C4: when the level file cannot be opened, TestLoadLevel returns without
\* reading a line, and ents, meshes and every transform are as they were
\* when it was called.
C4_OpenFailureAborts ==
    (~fileOpens /\ pc = "run" /\ frames = 0) =>
        /\ iters = 0
        /\ linesLeft = nLines
        /\ chars = << >>
        /\ currentEntity = Null
        /\ ents = atCall.ents
        /\ meshes = atCall.meshes
        /\ transforms = atCall.transforms
        /\ Len(atCall.ents) > 0

\* TestLoadLevel has returned from a file of several lines that did not open
C4_Witness ==
    /\ ~fileOpens
    /\ pc = "run"
    /\ nLines >= 2
    /\ Len(ents) > 0

\* ---- C5
\* C5: for every level file content TestLoadLevel returns normally, no
\* exception leaves it.
C5_NeverThrows == pc # "thrown"

Float3LineChangesOnly(field) ==
    /\ state' = state
    /\ currentEntity' = currentEntity
    /\ ents' = ents
    /\ meshes' = meshes
    /\ pc' = pc
    /\ currentEntity = IF Len(ents) > Len(atCall.ents) THEN ents[Len(ents)] ELSE Null
    /\ DOMAIN transforms' = DOMAIN transforms
    /\ \A e \in DOMAIN transforms :
          /\ e # currentEntity => transforms'[e] = transforms[e]
          /\ field # "position" => transforms'[e].position = transforms[e].position
          /\ field # "rotation" => transforms'[e].rotation = transforms[e].rotation
          /\ field # "scale" => transforms'[e].scale = transforms[e].scale
          /\ transforms'[e].parrent = transforms[e].parrent
    /\ currentEntity = Null => transforms' = transforms

C7_Float3LineFrame ==
    [][LoopStep =>
         /\ (Contains(chars', kwPos) /\ ~Contains(chars', kwArena))
               => Float3LineChangesOnly("position")
         /\ (Contains(chars', kwRot) /\ ~Contains(chars', kwArena) /\ ~Contains(chars', kwPos))
               => Float3LineChangesOnly("rotation")
         /\ (Contains(chars', kwScl) /\ ~Contains(chars', kwArena) /\ ~Contains(chars', kwPos)
               /\ ~Contains(chars', kwRot))
               => Float3LineChangesOnly("scale")]_vars

\* a pos line has moved the second entity of the level file
C7_Witness ==
    /\ pc = "load"
    /\ chars = PosOneTwoThree
    /\ Len(ents) = Len(atCall.ents) + 2
    /\ currentEntity = ents[Len(ents)]
    /\ transforms[currentEntity].position = <<1, 2, 3>>
    /\ transforms[currentEntity].rotation = NewTransform.rotation
    /\ transforms[ents[Len(ents) - 1]].position = NewTransform.position

\* ---- C8
\* what the branch a buffer content l selects does, by the first match in the
\* order arena, pos, rot, scl, model
DispatchEffect(l) ==
    /\ Contains(l, kwArena) => (state' = ArenaState /\ currentEntity' = currentEntity
                                  /\ ents' = ents /\ meshes' = meshes
                                  /\ transforms' = transforms)
    /\ (~Contains(l, kwArena) /\ Contains(l, kwPos)) => Float3LineChangesOnly("position")
    /\ (~Contains(l, kwArena) /\ ~Contains(l, kwPos) /\ Contains(l, kwRot))
          => Float3LineChangesOnly("rotation")
    /\ (~Contains(l, kwArena) /\ ~Contains(l, kwPos) /\ ~Contains(l, kwRot)
          /\ Contains(l, kwScl)) => Float3LineChangesOnly("scale")
    /\ ~ContainsEarlierKeyword(l) =>
          /\ state' = state
          /\ SubSeq(transforms', 1, Len(transforms)) = transforms
          /\ Len(ents') > Len(ents) => CreatesOneEntity

\* C8 as stated: lines are dispatched by the first substring match in the
\* order arena, pos, rot, scl, model; a line containing arena, pos, rot or scl
\* anywhere, `model robot` for one, never creates an entity; an entity is
\* created only by a line containing model and none of the four, after an
\* arena line.
C8_DispatchOrder ==
    [][LoopStep =>
         /\ DispatchEffect(chars')
         /\ ContainsEarlierKeyword(curLine') => Len(ents') = Len(ents)
         /\ curLine' = ModelRobot => Len(ents') = Len(ents)
         /\ Len(ents') # Len(ents) =>
               (Contains(curLine', kwModel) /\ ~ContainsEarlierKeyword(curLine') /\ seenArena)]_vars

\* C8 amended: lines are dispatched by the first substring match in the order
\* arena, pos, rot, scl, model over the part of the line read into the buffer
\* (its first BufSize - 1 characters); a line whose part read contains arena,
\* pos, rot or scl anywhere, `model rotor` for one, never creates an entity;
\* an entity is created only by a line whose part read contains model and none
\* of the four, after an arena line.
C8_DispatchOrderOnBuffer ==
    [][LoopStep =>
         /\ DispatchEffect(chars')
         /\ ContainsEarlierKeyword(chars') => Len(ents') = Len(ents)
         /\ curLine' = ModelRotor => Len(ents') = Len(ents)
         /\ Len(ents') # Len(ents) =>
               (Contains(chars', kwModel) /\ ~ContainsEarlierKeyword(chars') /\ seenArena)]_vars

\* `model rotor` was read in the arena state and handled as a rot line of the
\* entity `model robot` created
C8_Witness ==
    /\ pc = "load"
    /\ curLine = ModelRotor
    /\ state = ArenaState
    /\ Len(ents) = Len(atCall.ents) + 1
    /\ currentEntity = ents[Len(ents)]
    /\ meshes[Len(meshes)].path = AssetsModels \o <<"r","o","b","o","t">> \o DotObj
    /\ transforms[currentEntity].rotation \in {<<9, 9, 9>>, <<9, 0, 9>>}

\* ---- C9
\* C9: the read loop runs at most once per line plus once, and it is left at
\* end of file or at the first line that does not fit the buffer, with every
\* line from that one on left unread.
C9_LoopEndsAtEofOrLongLine ==
    /\ iters <= nLines + 1
    /\ (fileOpens /\ pc \in {"run", "outOfBounds", "thrown"}) =>
          \/ eofbit /\ linesLeft = 0
          \/ /\ failbit /\ ~eofbit
             /\ Len(curLine) >= BufSize
             /\ linesLeft >= 1
             /\ iters = nLines - linesLeft + 1

\* ---- C10
\* C10: once Init has succeeded, ents holds the three CreateGeometry entities
\* at its first three places in creation order, the level file's entities
\* after them, ents and meshes are equally long, and UpdateScene never reads
\* ents out of bounds.
C10_ThreeEntitiesAfterInit ==
    /\ pc # "outOfBounds"
    /\ pc = "run" =>
          /\ Len(ents) >= 3
          /\ Len(ents) = Len(meshes)
          /\ Len(ents) = Len(transforms)
          /\ \A i \in DOMAIN ents : ents[i] = i
          /\ SubSeq(ents, 1, 3) = atCall.ents
          /\ SubSeq(meshes, 1, 3) =
                <<MeshFromFile(HelixPath), MeshFromVertices, MeshFromFile(SpherePath)>>

\* UpdateScene has run on a scene that holds entities of the level file
C10_Witness ==
    /\ pc = "run"
    /\ frames >= 1
    /\ Len(ents) > 3
    /\ transforms[ents[3]].parrent = ents[2]

====
